---- MODULE Spec2Model ----
(***************************************************************************)
(* Model of ip_lookup: the RIR lookup workflow (ip_lookup/lookup.py,       *)
(* class RirSearcher) on top of the file-backed network cache              *)
(* (ip_lookup/cache.py, class NetworkCache).                               *)
(*                                                                         *)
(* Python strings are sequences of atoms.  An atom is either a separator   *)
(* character ("/", ",", " ", "\n") or a maximal run of other characters    *)
(* ("8.8.8.8", "24", "GOGL").  split, replace and join work on these       *)
(* sequences as they do on characters.  Python dicts are sequences of      *)
(* <<key, value>> pairs with distinct keys, in insertion order.            *)
(***************************************************************************)
EXTENDS Integers, Sequences, FiniteSets, TLC

(***************************************************************************)
(* Bounds of the model.                                                    *)
(***************************************************************************)
MaxBatch == 2       \* longest raw_ip_list handed to search_list
MaxCalls == 2       \* direct calls of single_lookup per run
MaxSets == 3        \* direct calls of NetworkCache.set per run
MaxQueueOps == 4    \* appends and flushes of the unresolved queue per run
MaxPace == 10       \* tokens of a list whose lookups are all external
Today == 100        \* the day number datetime.now() falls on

(***************************************************************************)
(* Program constants.                                                      *)
(***************************************************************************)
RETRY_COUNT_MAX == 3
SLEEP_INTERVAL == 10
CACHE_SAVE_INTERVAL == 100
CACHE_TIMEOUT_DAYS == 14
DEFAULT_CACHE_FILE == "ip_networks_cache.json"
ReservedNetNames == {<<"IANA-BLK">>}

PRIVATE_IP_DESCR == <<"Private", " ", "(RFC", " ", "1918", " ", "or", " ", "APIPA)", " ", "range">>
LOOPBACK_IP_DESCR == <<"Loopback", " ", "range">>
MCAST_IP_DESCR == <<"Multicast", " ", "range">>
RSVD_IP_DESCR == <<"Reserved", " ", "IP", " ", "range">>
INVALID_IP_DESCR == <<"Invalid", " ", "IP", " ", "Address">>

(***************************************************************************)
(* str operations.                                                         *)
(***************************************************************************)
RECURSIVE Split(_, _)
Split(s, sep) ==
    IF \A i \in DOMAIN s : s[i] # sep
    THEN <<s>>
    ELSE LET i == CHOOSE k \in DOMAIN s :
                      s[k] = sep /\ \A j \in 1..(k - 1) : s[j] # sep
         IN  <<SubSeq(s, 1, i - 1)>> \o Split(SubSeq(s, i + 1, Len(s)), sep)

Replace(s, old, new) == [i \in DOMAIN s |-> IF s[i] = old THEN new ELSE s[i]]

Remove(s, old) == SelectSeq(s, LAMBDA x : x # old)

RECURSIVE Join(_, _)
Join(sep, list) ==
    IF list = <<>> THEN <<>>
    ELSE IF Len(list) = 1 THEN list[1]
    ELSE list[1] \o <<sep>> \o Join(sep, Tail(list))

(***************************************************************************)
(* int(s): the value of a decimal literal, ValueError (-1) otherwise.      *)
(***************************************************************************)
IntOf(s) ==
    IF Len(s) # 1 THEN -1
    ELSE CASE s[1] = "8" -> 8
           [] s[1] = "9" -> 9
           [] s[1] = "16" -> 16
           [] s[1] = "24" -> 24
           [] s[1] = "32" -> 32
           [] s[1] = "33" -> 33
           [] OTHER -> -1

(***************************************************************************)
(* The ipaddress module: addresses are tuples of four octets, networks are *)
(* records of a network address and a prefix length.                       *)
(***************************************************************************)
Octets(atom) ==
    CASE atom = "0.0.0.0" -> <<0, 0, 0, 0>>
      [] atom = "1.1.1.1" -> <<1, 1, 1, 1>>
      [] atom = "8.0.0.0" -> <<8, 0, 0, 0>>
      [] atom = "8.8.0.0" -> <<8, 8, 0, 0>>
      [] atom = "8.8.4.0" -> <<8, 8, 4, 0>>
      [] atom = "8.8.4.4" -> <<8, 8, 4, 4>>
      [] atom = "8.8.8.0" -> <<8, 8, 8, 0>>
      [] atom = "8.8.8.8" -> <<8, 8, 8, 8>>
      [] atom = "8.8.8.256" -> <<8, 8, 8, 256>>
      [] atom = "10.0.0.0" -> <<10, 0, 0, 0>>
      [] atom = "10.1.2.3" -> <<10, 1, 2, 3>>
      [] atom = "127.0.0.1" -> <<127, 0, 0, 1>>
      [] atom = "224.0.0.1" -> <<224, 0, 0, 1>>
      [] atom = "240.0.0.1" -> <<240, 0, 0, 1>>
      [] OTHER -> <<>>

NoIp == <<>>
NoNet == [o |-> <<>>, len |-> -1]

\* ipaddress.ip_address(s): the IPv4Address, NoIp on ValueError
IpAddress(s) ==
    IF Len(s) = 1 /\ Len(Octets(s[1])) = 4
       /\ \A i \in 1..4 : Octets(s[1])[i] \in 0..255
    THEN Octets(s[1])
    ELSE NoIp

Pow2(n) == 2 ^ n

\* bits of octet i that a prefix of length len covers
PrefixBits(len, i) ==
    IF len - 8 * (i - 1) < 0 THEN 0
    ELSE IF len - 8 * (i - 1) > 8 THEN 8
    ELSE len - 8 * (i - 1)

\* IPv4Network.__contains__: ip & netmask == network_address
Contains(net, ip) ==
    /\ net # NoNet
    /\ ip # NoIp
    /\ \A i \in 1..4 :
          (ip[i] \div Pow2(8 - PrefixBits(net.len, i))) * Pow2(8 - PrefixBits(net.len, i))
              = net.o[i]

\* ipaddress.ip_network(s), strict: NoNet on ValueError (bad address, bad
\* prefix, or host bits set)
IpNetwork(s) ==
    LET parts == Split(s, "/")
        addr  == IpAddress(parts[1])
        len   == IF Len(parts) = 1 THEN 32 ELSE IntOf(parts[2])
    IN  IF Len(parts) > 2 \/ addr = NoIp \/ len \notin 0..32
        THEN NoNet
        ELSE IF Contains([o |-> addr, len |-> len], addr)
             THEN [o |-> addr, len |-> len]
             ELSE NoNet

Net(a, b, c, d, len) == [o |-> <<a, b, c, d>>, len |-> len]

PrivateNetworks ==
    { Net(0, 0, 0, 0, 8), Net(10, 0, 0, 0, 8), Net(127, 0, 0, 0, 8),
      Net(169, 254, 0, 0, 16), Net(172, 16, 0, 0, 12), Net(192, 0, 0, 0, 29),
      Net(192, 0, 0, 170, 31), Net(192, 0, 2, 0, 24), Net(192, 168, 0, 0, 16),
      Net(198, 18, 0, 0, 15), Net(198, 51, 100, 0, 24), Net(203, 0, 113, 0, 24),
      Net(240, 0, 0, 0, 4), Net(255, 255, 255, 255, 32) }

is_private(ip) == \E n \in PrivateNetworks : Contains(n, ip)
is_loopback(ip) == Contains(Net(127, 0, 0, 0, 8), ip)
is_multicast(ip) == Contains(Net(224, 0, 0, 0, 4), ip)
is_unspecified(ip) == ip = <<0, 0, 0, 0>>
is_reserved(ip) == Contains(Net(240, 0, 0, 0, 4), ip)

(***************************************************************************)
(* dict operations (insertion-ordered).                                    *)
(***************************************************************************)
Keys(d) == {d[i][1] : i \in DOMAIN d}

HasKey(d, k) == k \in Keys(d)

Get(d, k) == d[CHOOSE i \in DOMAIN d : d[i][1] = k][2]

\* d[k] = v : an existing key keeps its position, a new key goes last
Put(d, k, v) ==
    IF HasKey(d, k)
    THEN [i \in DOMAIN d |-> IF d[i][1] = k THEN <<k, v>> ELSE d[i]]
    ELSE Append(d, <<k, v>>)

(***************************************************************************)
(* Values.                                                                 *)
(***************************************************************************)
None == <<"<None>">>            \* Python's None, where a str is expected

\* ResolvedNetwork
ResolvedNetwork(address, cidr, description, name, country, registry, fqdn) ==
    [address |-> address, cidr |-> cidr, description |-> description,
     name |-> name, country |-> country, registry |-> registry, fqdn |-> fqdn]

NoRecord == ResolvedNetwork(None, None, None, None, None, None, None)

\* a cache entry; created = -1 stands for an entry without the "created" key
Entry(name, description, country, registry, fqdn, created) ==
    [name |-> name, description |-> description, country |-> country,
     registry |-> registry, fqdn |-> fqdn, created |-> created]

\* the result of single_lookup: a returned tuple, or an escaped exception
Returned(known_net, cached, error, resolved_net) ==
    [status |-> "returned", known_net |-> known_net, cached |-> cached,
     error |-> error, resolved_net |-> resolved_net, exc |-> "none"]

Raised(exc) ==
    [status |-> "raised", known_net |-> FALSE, cached |-> FALSE,
     error |-> FALSE, resolved_net |-> NoRecord, exc |-> exc]

NoResult ==
    [status |-> "none", known_net |-> FALSE, cached |-> FALSE,
     error |-> FALSE, resolved_net |-> NoRecord, exc |-> "none"]

\* a whois response: keys is the set of keys the dict holds
Response(nets, keys, asn_cidr, asn_description, asn_country_code, asn_registry) ==
    [nets |-> nets, keys |-> keys, asn_cidr |-> asn_cidr,
     asn_description |-> asn_description, asn_country_code |-> asn_country_code,
     asn_registry |-> asn_registry]

EmptyResponse == Response(<<>>, {}, None, None, None, None)

WhoisNet(cidr, name, description, country) ==
    [cidr |-> cidr, name |-> name, description |-> description, country |-> country]

\* a file on disk
Absent == [kind |-> "absent", data |-> <<>>]
Corrupt == [kind |-> "corrupt", data |-> <<>>]
NotUtf8 == [kind |-> "binary", data |-> <<>>]
Json(d) == [kind |-> "json", data |-> d]

\* json.dump / json.load of one value: a string goes between quotes, None
\* is null
JsonValue(v) == IF v = None THEN <<"null">> ELSE <<"\"">> \o v \o <<"\"">>

JsonParse(t) == IF t = <<"null">> THEN None ELSE SubSeq(t, 2, Len(t) - 1)

JsonEntry(e) ==
    [name |-> JsonValue(e.name), description |-> JsonValue(e.description),
     country |-> JsonValue(e.country), registry |-> JsonValue(e.registry),
     fqdn |-> JsonValue(e.fqdn), created |-> e.created]

ParseEntry(t) ==
    [name |-> JsonParse(t.name), description |-> JsonParse(t.description),
     country |-> JsonParse(t.country), registry |-> JsonParse(t.registry),
     fqdn |-> JsonParse(t.fqdn), created |-> t.created]

\* json.dump(self.cache, ...): the text of the file, members in dict order
JsonDump(c) == [i \in DOMAIN c |-> <<JsonValue(c[i][1]), JsonEntry(c[i][2])>>]

\* json.load(cachedata)
JsonLoad(text) == [i \in DOMAIN text |-> <<JsonParse(text[i][1]), ParseEntry(text[i][2])>>]

VARIABLES
    pc,                 \* where the program is
    caller,             \* who called single_lookup: "api", "list" or "excel"
    calls,              \* top-level calls made so far
    cache,              \* NetworkCache.cache: CIDR -> entry
    net_to_cidr,        \* NetworkCache.net_to_cidr: IPv4Network -> CIDR
    not_found,          \* NetworkCache.not_found
    resolved_ip_list,   \* RirSearcher.resolved_ip_list
    raw_ip_list,        \* RirSearcher.raw_ip_list
    start_cache_size,   \* RirSearcher.start_cache_size
    cache_file_name,    \* the file name RirSearcher is given (resolve.py --cache)
    disk,               \* cache files on disk, by name
    not_found_file,     \* content of NOT_FOUND_FILE
    ip_list,            \* search_list: tokens still to do; search_excel: cells
    cache_hits,         \* search_list, search_excel: counter
    lookups,            \* search_list, search_excel: counter
    address,            \* single_lookup: the token
    persist,            \* single_lookup: argument
    ip,                 \* single_lookup: host address
    retry_count,        \* single_lookup: timeouts so far
    response,           \* single_lookup: the whois response
    result,             \* what the last single_lookup gave its caller
    io,                 \* counts of calls to collaborators and cache
    attempts,           \* outcomes of the whois queries of the current single_lookup
    pre,                \* cache state when the current single_lookup began
    hist,               \* CIDR keys in the order they entered the index
    origin,             \* CIDR key -> the record of the lookup that wrote it
    last_set,           \* the network of the latest NetworkCache.set
    queued,             \* every address appended to not_found, in order
    as_list             \* what search_list counts for the outcomes of this run

vars == <<pc, caller, calls, cache, net_to_cidr, not_found, resolved_ip_list,
          raw_ip_list, start_cache_size, cache_file_name, disk, not_found_file,
          ip_list, cache_hits, lookups, address, persist, ip, retry_count,
          response, result, io, attempts, pre, hist, origin, last_set, queued,
          as_list>>

cacheVars == <<cache, net_to_cidr, not_found>>
listVars == <<ip_list, cache_hits, lookups, resolved_ip_list, raw_ip_list>>
callVars == <<address, persist, ip, retry_count, response>>
ghostVars == <<origin, last_set, queued, as_list>>

(***************************************************************************)
(* NetworkCache.                                                           *)
(***************************************************************************)
\* expiry_date < now in place of <=
FreshOnExpiryDay(entry, now) ==
    entry.created # -1 /\ ~(entry.created + CACHE_TIMEOUT_DAYS < now)

\* the entries load keeps: "created" present and created + 14 days > now
Fresh(entry, now) ==
    entry.created # -1 /\ ~(entry.created + CACHE_TIMEOUT_DAYS <= now)

Prune(data, now) == SelectSeq(data, LAMBDA kv : Fresh(kv[2], now))

\* setdefault in place of the assignment: a network keeps its first CIDR
IndexPutFirstWins(index, network) ==
    IF HasKey(index, IpNetwork(network)) THEN index
    ELSE Put(index, IpNetwork(network), network)

\* self.net_to_cidr[ipaddress.ip_network(network)] = network
IndexPut(index, network) == Put(index, IpNetwork(network), network)

\* {ipaddress.ip_network(CIDR): CIDR for CIDR in self.cache.keys()}
RECURSIVE BuildIndex(_, _)
BuildIndex(index, data) ==
    IF data = <<>> THEN index
    ELSE BuildIndex(IndexPut(index, data[1][1]), Tail(data))

\* NetworkCache.set: the cache mapping after the call
SetCache(c, network, name, description, country, registry, fqdn, now) ==
    Put(c, network, Entry(name, description, country, registry, fqdn, now))

\* set without the insertion into the index
SetIndexForgotten(index, network) == index

\* NetworkCache.set: the index after the call (ValueError is logged)
SetIndex(index, network) ==
    IF IpNetwork(network) # NoNet THEN IndexPut(index, network) ELSE index

\* in_cache with the "return None" inside the loop: only the first network
\* of the index is looked at
in_cache_first_only(index, a) ==
    IF index = <<>> THEN None
    ELSE IF Contains(index[1][1], a) THEN index[1][2]
    ELSE None

\* in_cache that keeps scanning: the last network that holds the address
in_cache_last_match(index, a) ==
    LET hits == {i \in DOMAIN index : Contains(index[i][1], a)}
    IN  IF hits = {} THEN None
        ELSE index[CHOOSE i \in hits : \A j \in hits : j <= i][2]

\* NetworkCache.in_cache: first network of the index that holds the address
RECURSIVE in_cache(_, _)
in_cache(index, a) ==
    IF index = <<>> THEN None
    ELSE IF Contains(index[1][1], a) THEN index[1][2]
    ELSE in_cache(Tail(index), a)

\* _get with country and registry taken from each other's field
get_network_swapped(c, addr, network) ==
    LET e == Get(c, network)
    IN  ResolvedNetwork(addr, network, e.description, e.name, e.registry,
                        e.country, e.fqdn)

\* NetworkCache._get and get_network
get_network(c, addr, network) ==
    LET e == Get(c, network)
    IN  ResolvedNetwork(addr, network, e.description, e.name, e.country,
                        e.registry, e.fqdn)

\* save_not_found: the side file after the call
NotFoundWrite(file, queue) ==
    IF Len(queue) = 0 THEN file ELSE file \o Join("\n", queue)

(***************************************************************************)
(* RirSearcher._check_known_nets and the record single_lookup builds.      *)
(***************************************************************************)
WellKnown(token, description) ==
    ResolvedNetwork(token, <<>>, description, <<>>, <<>>, <<>>, <<>>)

\* _check_known_nets without the multicast test
check_known_nets_no_mcast(token) ==
    LET host == IpAddress(Split(token, "/")[1])
    IN  IF host = NoIp
        THEN [ip |-> NoIp, resolved_net |-> WellKnown(token, INVALID_IP_DESCR)]
        ELSE IF is_private(host)
        THEN [ip |-> NoIp, resolved_net |-> WellKnown(token, PRIVATE_IP_DESCR)]
        ELSE IF is_loopback(host)
        THEN [ip |-> NoIp, resolved_net |-> WellKnown(token, LOOPBACK_IP_DESCR)]
        ELSE IF is_unspecified(host) \/ is_reserved(host)
        THEN [ip |-> NoIp, resolved_net |-> WellKnown(token, RSVD_IP_DESCR)]
        ELSE [ip |-> host, resolved_net |-> NoRecord]

\* _check_known_nets: the pair (ip, resolved_net)
check_known_nets(token) ==
    LET host == IpAddress(Split(token, "/")[1])
    IN  IF host = NoIp
        THEN [ip |-> NoIp, resolved_net |-> WellKnown(token, INVALID_IP_DESCR)]
        ELSE IF is_private(host)
        THEN [ip |-> NoIp, resolved_net |-> WellKnown(token, PRIVATE_IP_DESCR)]
        ELSE IF is_loopback(host)
        THEN [ip |-> NoIp, resolved_net |-> WellKnown(token, LOOPBACK_IP_DESCR)]
        ELSE IF is_multicast(host)
        THEN [ip |-> NoIp, resolved_net |-> WellKnown(token, MCAST_IP_DESCR)]
        ELSE IF is_unspecified(host) \/ is_reserved(host)
        THEN [ip |-> NoIp, resolved_net |-> WellKnown(token, RSVD_IP_DESCR)]
        ELSE [ip |-> host, resolved_net |-> NoRecord]

\* the loop condition off by one: "while retry_count <= RETRY_COUNT_MAX"
LoopGoesOnOneMore(count) == count <= RETRY_COUNT_MAX

\* "while retry_count < RETRY_COUNT_MAX"
LoopGoesOn(count) == count < RETRY_COUNT_MAX

\* "if net := self.cache.in_cache(ip)": None and "" are false
Truthy(s) == s # None /\ s # <<>>

\* "not response"
IsEmptyDict(r) == r.keys = {}

\* str(x).replace("\n", " ")
Clean(s) == Replace(s, "\n", " ")

NetCidr(r) == IF Len(r.nets) > 0 THEN Clean(r.nets[1].cidr) ELSE Clean(r.asn_cidr)
NetName(r) == IF Len(r.nets) > 0 THEN Clean(r.nets[1].name) ELSE <<>>
NetDescription(r) ==
    IF Len(r.nets) > 0 THEN Clean(r.nets[1].description) ELSE Clean(r.asn_description)
NetCountry(r) ==
    IF Len(r.nets) > 0 THEN Clean(r.nets[1].country) ELSE Clean(r.asn_country_code)
NetRegistry(r) == Clean(r.asn_registry)

\* response.get('asn_cidr', None)
AsnCidr(r) == IF "asn_cidr" \in r.keys THEN r.asn_cidr ELSE None

\* the keys when only a missing asn_cidr, not "NA", sends to the net's CIDR
SubnetsNaIsKey(r) ==
    IF AsnCidr(r) = None
    THEN Split(Remove(r.nets[1].cidr, " "), ",")
    ELSE <<AsnCidr(r)>>

\* the CIDR keys single_lookup writes to the cache
Subnets(r) ==
    IF AsnCidr(r) \in {None, <<"NA">>}
    THEN Split(Remove(r.nets[1].cidr, " "), ",")
    ELSE <<AsnCidr(r)>>

\* "len(host_and_mask) == 1 or int(host_and_mask[1]) == 32"
IsSingleHost(token) ==
    Len(Split(token, "/")) = 1 \/ IntOf(Split(token, "/")[2]) = 32

\* int(host_and_mask[1]) raises ValueError
MaskRaises(token) ==
    Len(Split(token, "/")) # 1 /\ IntOf(Split(token, "/")[2]) = -1

\* the exception the code after the retry loop raises for a response, if any
RaisedBy(r, token) ==
    IF Len(r.nets) = 0 /\ "asn_cidr" \notin r.keys THEN "KeyError"
    ELSE IF MaskRaises(token) THEN "ValueError"
    ELSE IF NetName(r) \notin ReservedNetNames
            /\ AsnCidr(r) \in {None, <<"NA">>} /\ Len(r.nets) = 0
    THEN "IndexError"
    ELSE "none"

\* "for net in subnets: self.cache.set(net, ...)": the cache mapping
RECURSIVE SetAllCache(_, _, _, _, _, _, _, _)
SetAllCache(c, subnets, name, description, country, registry, fqdn, now) ==
    IF subnets = <<>> THEN c
    ELSE SetAllCache(SetCache(c, subnets[1], name, description, country,
                              registry, fqdn, now),
                     Tail(subnets), name, description, country, registry, fqdn, now)

\* "for net in subnets: self.cache.set(net, ...)": the index
RECURSIVE SetAllIndex(_, _)
SetAllIndex(index, subnets) ==
    IF subnets = <<>> THEN index
    ELSE SetAllIndex(SetIndex(index, subnets[1]), Tail(subnets))

\* d[k] = v for every k of a list
RECURSIVE PutAll(_, _, _)
PutAll(d, ks, v) ==
    IF ks = <<>> THEN d ELSE PutAll(Put(d, ks[1], v), Tail(ks), v)

\* the parseable CIDR keys of a list, in order
Parseable(subnets) == SelectSeq(subnets, LAMBDA n : IpNetwork(n) # NoNet)

(***************************************************************************)
(* Inputs: tokens, collaborator answers and cache files.                   *)
(***************************************************************************)
RoutableTokens ==
    { <<"8.8.8.8">>, <<"8.8.8.8", "/", "32">>, <<"8.8.4.4", "/", "24">>,
      <<"8.8.8.8", "/", "x">> }

WellKnownTokens ==
    { <<"10.1.2.3">>, <<"10.1.2.3", "/", "8">>, <<"127.0.0.1">>, <<"224.0.0.1">>,
      <<"240.0.0.1">>, <<"0.0.0.0">>, <<"8.8.8.256">>, <<"host">>, <<>> }

Tokens == RoutableTokens \cup WellKnownTokens

\* the tokens of the lists search_list is run on
BatchTokens == { <<"8.8.4.4", "/", "24">>, <<"10.1.2.3">> }

BatchLists == UNION { [1..n -> BatchTokens] : n \in 0..MaxBatch }

Google == <<"Google", "\n", "LLC">>
Both24 == <<"8.8.8.0", "/", "24", ",", " ", "8.8.4.0", "/", "24">>
AllKeys == {"nets", "asn_cidr", "asn_description", "asn_country_code", "asn_registry"}

\* a delegated block: its name is excluded from the cache
Delegated ==
    Response(<<WhoisNet(<<"8.0.0.0", "/", "8">>, <<"IANA-BLK">>, <<"IANA">>, <<"US">>)>>,
             AllKeys, <<"NA">>, <<"NA">>, <<"NA">>, <<"arin">>)

Responses ==
    { \* a net and, inside it, the ASN prefix
      Response(<<WhoisNet(<<"8.0.0.0", "/", "9">>, <<"LVLT">>, <<"Level3">>, <<"US">>)>>,
               AllKeys, <<"8.8.8.0", "/", "24">>, <<"LEVEL3">>, <<"US">>, <<"arin">>),
      Delegated,
      \* a list of CIDRs and no ASN prefix
      Response(<<WhoisNet(Both24, <<"GOGL">>, Google, <<"US">>)>>,
               AllKeys \ {"asn_cidr"}, None, <<"GOOGLE">>, <<"US">>, <<"arin">>),
      \* a net, and the placeholder for the ASN prefix
      Response(<<WhoisNet(<<"8.8.8.0", "/", "24">>, <<"LVLT">>, <<"Level3">>, <<"US">>)>>,
               AllKeys, <<"NA">>, <<"NA">>, <<"NA">>, <<"arin">>),
      \* an ASN prefix with host bits set
      Response(<<WhoisNet(<<"8.8.0.0", "/", "16">>, <<"GOGL">>, Google, <<"US">>)>>,
               AllKeys, <<"8.8.8.8", "/", "24">>, <<"GOOGLE">>, <<"US">>, <<"arin">>),
      \* no nets, an ASN prefix
      Response(<<>>, AllKeys, <<"8.8.0.0", "/", "16">>, <<"GOOGLE">>, <<"US">>, <<"arin">>),
      \* no nets, the placeholder
      Response(<<>>, AllKeys, <<"NA">>, <<"NA">>, <<"NA">>, <<"arin">>),
      \* no nets, no ASN prefix
      Response(<<>>, AllKeys \ {"asn_cidr"}, None, <<"NA">>, <<"NA">>, <<"arin">>) }

QueryErrors == {"HTTPLookupError", "WhoisLookupError", "ASNParseError"}

\* socket.gethostbyaddr: a name, or socket.herror (None)
RdnsAnswers == { <<"dns.google">>, None }

FileNames == {DEFAULT_CACHE_FILE, "my_cache.json"}

OldEntry(created) == Entry(<<"OLD">>, <<"Old", " ", "net">>, <<"DE">>, <<"ripencc">>, <<>>, created)

GoodFile ==
    Json(JsonDump(<< <<<<"8.8.4.0", "/", "24">>, OldEntry(Today - 13)>>,
                     <<<<"8.8.0.0", "/", "16">>, OldEntry(Today - 14)>>,
                     <<<<"8.0.0.0", "/", "8">>, OldEntry(Today - 15)>>,
                     <<<<"1.1.1.1">>, OldEntry(-1)>> >>))

\* a file with a key that is no network (host bits set) among good ones
BadKeyFile ==
    Json(JsonDump(<< <<<<"8.8.4.0", "/", "24">>, OldEntry(Today - 1)>>,
                     <<<<"8.8.8.8", "/", "24">>, OldEntry(Today - 1)>>,
                     <<<<"10.0.0.0", "/", "8">>, OldEntry(Today - 2)>> >>))

CacheFiles == { Absent, Corrupt, NotUtf8, GoodFile, BadKeyFile }

NoIo == [whois |-> 0, rdns |-> 0, timeout_sleeps |-> 0, pace_sleeps |-> 0,
         cache_reads |-> 0, cache_writes |-> 0, saves |-> 0, flushes |-> 0]

\* the counters of search_list before the first token; running is FALSE
\* once an exception has left search_list
NoCounts ==
    [cache_hits |-> 0, lookups |-> 0, sleeps |-> 0, saves |-> 0, running |-> TRUE]

\* search_list lines 212-235: the counters, the pacing sleeps and the
\* periodic saves after one more outcome r of single_lookup
Counted(c, r) ==
    IF r.status = "raised" THEN [c EXCEPT !.running = FALSE]
    ELSE IF r.known_net THEN c
    ELSE IF r.cached THEN [c EXCEPT !.cache_hits = @ + 1]
    ELSE LET n == c.lookups + 1
         IN  [c EXCEPT !.lookups = n,
                       !.sleeps = IF ~r.error /\ n % SLEEP_INTERVAL = 0
                                  THEN @ + 1 ELSE @,
                       !.saves = IF ~r.error /\ n % CACHE_SAVE_INTERVAL = 0
                                 THEN @ + 1 ELSE @]

Snapshot ==
    [cache |-> cache, net_to_cidr |-> net_to_cidr, not_found |-> not_found,
     io |-> io, disk |-> disk, not_found_file |-> not_found_file]

NoSnapshot ==
    [cache |-> <<>>, net_to_cidr |-> <<>>, not_found |-> <<>>,
     io |-> NoIo, disk |-> [f \in FileNames |-> Absent], not_found_file |-> <<>>]

\* the locals of single_lookup go out of scope
ClearCall ==
    /\ caller' = "none"
    /\ address' = <<>>
    /\ persist' = FALSE
    /\ ip' = NoIp
    /\ retry_count' = 0
    /\ response' = EmptyResponse
    /\ result' = NoResult
    /\ attempts' = <<>>
    /\ pre' = NoSnapshot

Init ==
    /\ pc = "new"
    /\ caller = "none"
    /\ calls = 0
    /\ cache = <<>>
    /\ net_to_cidr = <<>>
    /\ not_found = <<>>
    /\ resolved_ip_list = <<>>
    /\ raw_ip_list = <<>>
    /\ start_cache_size = 0
    /\ cache_file_name \in FileNames
    /\ disk \in [FileNames -> CacheFiles]
    /\ \A f \in FileNames : f # cache_file_name => disk[f] = Absent
    /\ cache_file_name # DEFAULT_CACHE_FILE => disk[cache_file_name] = GoodFile
    /\ not_found_file = <<>>
    /\ ip_list = <<>>
    /\ cache_hits = 0
    /\ lookups = 0
    /\ address = <<>>
    /\ persist = FALSE
    /\ ip = NoIp
    /\ retry_count = 0
    /\ response = EmptyResponse
    /\ result = NoResult
    /\ io = NoIo
    /\ attempts = <<>>
    /\ pre = NoSnapshot
    /\ hist = <<>>
    /\ origin = <<>>
    /\ last_set = None
    /\ queued = <<>>
    /\ as_list = NoCounts

(***************************************************************************)
(* RirSearcher.__init__ / NetworkCache.__init__ : load the cache file.     *)
(***************************************************************************)
KeysOf(data) == [i \in DOMAIN data |-> data[i][1]]

\* the constructor with the index built before the stale keys are deleted
LoadFileIndexFirst(file, now) ==
    IF file.kind # "json"
    THEN [status |-> IF file.kind = "binary" THEN "UnicodeDecodeError" ELSE "ok",
          cache |-> <<>>, index |-> <<>>]
    ELSE LET data == JsonLoad(file.data)
         IN  IF \E i \in DOMAIN data : IpNetwork(data[i][1]) = NoNet
             THEN [status |-> "ValueError", cache |-> data, index |-> <<>>]
             ELSE [status |-> "ok", cache |-> Prune(data, now),
                   index |-> BuildIndex(<<>>, data)]

\* NetworkCache.__init__ on a file: how it ends, and the cache and the index
\* it leaves
LoadFile(file, now) ==
    IF file.kind = "absent" \/ file.kind = "corrupt"
    THEN \* no file, or a JSONDecodeError: the empty class-level cache
         [status |-> "ok", cache |-> <<>>, index |-> <<>>]
    ELSE IF file.kind = "binary"
    THEN \* reading the text raises UnicodeDecodeError, which is not caught
         [status |-> "UnicodeDecodeError", cache |-> <<>>, index |-> <<>>]
    ELSE LET kept == Prune(JsonLoad(file.data), now)
         IN  IF \E i \in DOMAIN kept : IpNetwork(kept[i][1]) = NoNet
             THEN \* ip_network raises ValueError out of the constructor
                  [status |-> "ValueError", cache |-> kept, index |-> <<>>]
             ELSE [status |-> "ok", cache |-> kept, index |-> BuildIndex(<<>>, kept)]

Load ==
    /\ pc = "new"
    /\ LET r == LoadFile(disk[cache_file_name], Today)
       IN  /\ cache' = r.cache
           /\ IF r.status = "ok"
              THEN /\ pc' = "ready"
                   /\ net_to_cidr' = r.index
                   /\ start_cache_size' = Len(r.cache)
                   /\ hist' = KeysOf(r.cache)
              ELSE /\ pc' = "crashed"
                   /\ UNCHANGED <<net_to_cidr, start_cache_size, hist>>
    /\ UNCHANGED <<ghostVars, caller, calls, not_found, disk, not_found_file, listVars,
                   callVars, result, io, attempts, pre, cache_file_name>>

(***************************************************************************)
(* RirSearcher.single_lookup.                                              *)
(***************************************************************************)
\* lines 121-132: classify, look in the cache, set up the retry loop
Begin(token, p, who, io0) ==
    LET known == check_known_nets(token)
        net   == in_cache(net_to_cidr, known.ip)
    IN  /\ address' = token
        /\ persist' = p
        /\ caller' = who
        /\ ip' = known.ip
        /\ attempts' = <<>>
        /\ pre' = [Snapshot EXCEPT !.io = io0]
        /\ retry_count' = 0
        /\ response' = EmptyResponse
        /\ IF known.resolved_net # NoRecord
           THEN /\ result' = Returned(TRUE, FALSE, FALSE, known.resolved_net)
                /\ pc' = "ret"
                /\ io' = io0
           ELSE IF Truthy(net)
           THEN /\ result' = IF HasKey(cache, net)
                             THEN Returned(FALSE, TRUE, FALSE,
                                           get_network(cache, token, net))
                             ELSE Raised("KeyError")
                /\ pc' = "ret"
                /\ io' = [io0 EXCEPT !.cache_reads = @ + 2]
           ELSE /\ result' = NoResult
                /\ pc' = "query"
                /\ io' = [io0 EXCEPT !.cache_reads = @ + 1]
        /\ UNCHANGED <<ghostVars, cacheVars, disk, not_found_file, hist, start_cache_size,
                       cache_file_name>>

\* a direct call of single_lookup
SingleLookup(token, p) ==
    /\ pc = "ready"
    /\ calls < MaxCalls
    /\ calls' = calls + 1
    /\ Begin(token, p, "api", NoIo)
    /\ UNCHANGED listVars

\* lines 136, 138-143: the query times out
AttemptTimeout ==
    /\ pc = "query"
    /\ attempts' = Append(attempts, "TimeoutError")
    /\ retry_count' = retry_count + 1
    /\ io' = [io EXCEPT !.whois = @ + 1, !.timeout_sleeps = @ + 1]
    /\ pc' = IF LoopGoesOn(retry_count + 1) THEN "query" ELSE "post"
    /\ UNCHANGED <<ghostVars, caller, calls, cacheVars, listVars, address, persist, ip,
                   response, result, pre, hist, disk, not_found_file,
                   start_cache_size, cache_file_name>>

\* the registry error handled like a timeout: count, sleep, try again
AttemptErrorRetried(e) ==
    /\ pc = "query"
    /\ attempts' = Append(attempts, e)
    /\ retry_count' = retry_count + 1
    /\ io' = [io EXCEPT !.whois = @ + 1, !.timeout_sleeps = @ + 1]
    /\ pc' = IF LoopGoesOn(retry_count + 1) THEN "query" ELSE "post"
    /\ UNCHANGED <<ghostVars, caller, calls, cacheVars, listVars, address, persist, ip,
                   response, result, pre, hist, disk, not_found_file,
                   start_cache_size, cache_file_name>>

\* lines 136, 144-148: the query fails with a registry error
AttemptError(e) ==
    /\ pc = "query"
    /\ attempts' = Append(attempts, e)
    /\ io' = [io EXCEPT !.whois = @ + 1]
    /\ pc' = "post"
    /\ UNCHANGED <<ghostVars, caller, calls, cacheVars, listVars, callVars, result, pre,
                   hist, disk, not_found_file, start_cache_size, cache_file_name>>

\* lines 136-137: the query answers
AttemptResponse(r) ==
    /\ pc = "query"
    /\ attempts' = Append(attempts, "ok")
    /\ response' = r
    /\ io' = [io EXCEPT !.whois = @ + 1]
    /\ pc' = "post"
    /\ UNCHANGED <<ghostVars, caller, calls, cacheVars, listVars, address, persist, ip,
                   retry_count, result, pre, hist, disk, not_found_file,
                   start_cache_size, cache_file_name>>

\* lines 150-152: retries exhausted, or no response
FinishFailed ==
    /\ pc = "post"
    /\ retry_count = RETRY_COUNT_MAX \/ IsEmptyDict(response)
    /\ not_found' = Append(not_found, address)
    /\ queued' = Append(queued, address)
    /\ result' = Returned(FALSE, FALSE, TRUE, NoRecord)
    /\ pc' = "ret"
    /\ UNCHANGED <<origin, last_set, as_list, caller, calls, cache, net_to_cidr,
                   listVars, callVars, io, attempts, pre, hist, disk,
                   not_found_file, start_cache_size, cache_file_name>>

\* save_cache(DEFAULT_CACHE_FILE): the disk after the call
SaveCache(d, c) == [d EXCEPT ![DEFAULT_CACHE_FILE] = Json(JsonDump(c))]

\* lines 154-197: build the record, resolve the name, fill the cache
FinishLookup(answer) ==
    /\ pc = "post"
    /\ ~(retry_count = RETRY_COUNT_MAX \/ IsEmptyDict(response))
    /\ LET exc     == RaisedBy(response, address)
           asked   == IsSingleHost(address) /\ exc \notin {"KeyError", "ValueError"}
           fqdn    == IF asked /\ answer # None THEN answer ELSE <<>>
           name    == NetName(response)
           subnets == Subnets(response)
           cached  == exc = "none" /\ name \notin ReservedNetNames
           newc    == SetAllCache(cache, subnets, name, NetDescription(response),
                                  NetCountry(response), NetRegistry(response),
                                  fqdn, Today)
           saved   == cached /\ persist
       IN  /\ result' = IF exc # "none" THEN Raised(exc)
                        ELSE Returned(FALSE, FALSE, FALSE,
                                      ResolvedNetwork(address, NetCidr(response),
                                          NetDescription(response), name,
                                          NetCountry(response), NetRegistry(response),
                                          fqdn))
           /\ cache' = IF cached THEN newc ELSE cache
           /\ net_to_cidr' = IF cached THEN SetAllIndex(net_to_cidr, subnets)
                             ELSE net_to_cidr
           /\ hist' = IF cached THEN hist \o Parseable(subnets) ELSE hist
           /\ origin' = IF cached THEN PutAll(origin, subnets, result'.resolved_net)
                        ELSE origin
           /\ last_set' = IF cached THEN subnets[Len(subnets)] ELSE last_set
           /\ disk' = IF saved THEN SaveCache(disk, newc) ELSE disk
           /\ not_found_file' = IF saved THEN NotFoundWrite(not_found_file, not_found)
                                ELSE not_found_file
           /\ not_found' = IF saved THEN <<>> ELSE not_found
           /\ io' = [io EXCEPT
                       !.rdns = IF asked THEN @ + 1 ELSE @,
                       !.cache_writes = IF cached THEN @ + Len(subnets) ELSE @,
                       !.saves = IF saved THEN @ + 1 ELSE @,
                       !.flushes = IF saved /\ Len(not_found) # 0 THEN @ + 1 ELSE @]
    /\ pc' = "ret"
    /\ UNCHANGED <<caller, calls, listVars, callVars, attempts, pre, queued,
                   as_list, start_cache_size, cache_file_name>>

\* single_lookup gives control back to a direct caller
ApiReturn ==
    /\ pc = "ret"
    /\ caller = "api"
    /\ pc' = "ready"
    /\ ClearCall
    /\ UNCHANGED <<ghostVars, calls, cacheVars, listVars, io, hist, disk, not_found_file,
                   start_cache_size, cache_file_name>>

(***************************************************************************)
(* RirSearcher.reload_file and RirSearcher.search_list.                    *)
(***************************************************************************)
\* resolve.py lines 65-66: reload_file(list), then search_list up to its loop
RunList(list) ==
    /\ pc = "ready"
    /\ calls = 0
    /\ calls' = 1
    /\ raw_ip_list' = list
    /\ ip_list' = list
    /\ cache_hits' = 0
    /\ lookups' = 0
    /\ io' = NoIo
    /\ as_list' = NoCounts
    /\ pc' = "loop"
    /\ UNCHANGED <<origin, last_set, queued, caller, cacheVars, resolved_ip_list, callVars, result,
                   attempts, pre, hist, disk, not_found_file, start_cache_size,
                   cache_file_name>>

\* lines 208-210: take the next token and call single_lookup
LoopNext ==
    /\ pc = "loop"
    /\ Len(ip_list) # 0
    /\ ip_list' = Tail(ip_list)
    /\ Begin(Head(ip_list), FALSE, "list", io)
    /\ UNCHANGED <<calls, cache_hits, lookups, resolved_ip_list, raw_ip_list>>

\* lines 212-237: what search_list does with the outcome of single_lookup
Handle ==
    /\ pc = "ret"
    /\ caller = "list"
    /\ IF result.status = "raised"
       THEN \* the exception leaves search_list
            /\ pc' = "aborted"
            /\ UNCHANGED <<cache_hits, lookups, resolved_ip_list, not_found, queued,
                           io, disk>>
       ELSE /\ pc' = "loop"
            /\ IF result.known_net
               THEN /\ resolved_ip_list' = Append(resolved_ip_list, result.resolved_net)
                    /\ UNCHANGED <<cache_hits, lookups, not_found, queued, io, disk>>
               ELSE IF result.cached
               THEN /\ cache_hits' = cache_hits + 1
                    /\ resolved_ip_list' = Append(resolved_ip_list, result.resolved_net)
                    /\ UNCHANGED <<lookups, not_found, queued, io, disk>>
               ELSE /\ lookups' = lookups + 1
                    /\ cache_hits' = cache_hits
                    /\ IF result.error
                       THEN /\ not_found' = Append(not_found, address)
                            /\ queued' = Append(queued, address)
                            /\ UNCHANGED <<resolved_ip_list, io, disk>>
                       ELSE /\ UNCHANGED <<not_found, queued>>
                            /\ resolved_ip_list' =
                                   Append(resolved_ip_list, result.resolved_net)
                            /\ io' = [io EXCEPT
                                   !.pace_sleeps =
                                       IF (lookups + 1) % SLEEP_INTERVAL = 0
                                       THEN @ + 1 ELSE @,
                                   !.saves =
                                       IF (lookups + 1) % CACHE_SAVE_INTERVAL = 0
                                       THEN @ + 1 ELSE @]
                            /\ disk' = IF (lookups + 1) % CACHE_SAVE_INTERVAL = 0
                                       THEN SaveCache(disk, cache) ELSE disk
    /\ as_list' = Counted(as_list, result)
    /\ ClearCall
    /\ UNCHANGED <<origin, last_set, calls, cache, net_to_cidr, ip_list, raw_ip_list, hist,
                   not_found_file, start_cache_size, cache_file_name>>

\* the end of the list with the flush in an else branch of the size test
LoopEndSaveOrFlush ==
    /\ pc = "loop"
    /\ Len(ip_list) = 0
    /\ LET grew == Len(cache) > start_cache_size
       IN  /\ disk' = IF grew THEN SaveCache(disk, cache) ELSE disk
           /\ not_found_file' = IF grew THEN not_found_file
                                ELSE NotFoundWrite(not_found_file, not_found)
           /\ not_found' = IF grew THEN not_found ELSE <<>>
           /\ io' = [io EXCEPT
                       !.saves = IF grew THEN @ + 1 ELSE @,
                       !.flushes = IF ~grew /\ Len(not_found) # 0 THEN @ + 1 ELSE @]
    /\ pc' = "done"
    /\ UNCHANGED <<ghostVars, caller, calls, cache, net_to_cidr, listVars, callVars, result,
                   attempts, pre, hist, start_cache_size, cache_file_name>>

\* lines 239-243: the list is done
LoopEnd ==
    /\ pc = "loop"
    /\ Len(ip_list) = 0
    /\ disk' = IF Len(cache) > start_cache_size THEN SaveCache(disk, cache) ELSE disk
    /\ not_found_file' = NotFoundWrite(not_found_file, not_found)
    /\ not_found' = <<>>
    /\ io' = [io EXCEPT
                !.saves = IF Len(cache) > start_cache_size THEN @ + 1 ELSE @,
                !.flushes = IF Len(not_found) # 0 THEN @ + 1 ELSE @]
    /\ pc' = "done"
    /\ UNCHANGED <<ghostVars, caller, calls, cache, net_to_cidr, listVars, callVars, result,
                   attempts, pre, hist, start_cache_size, cache_file_name>>

Next ==
    \/ Load
    \/ \E t \in Tokens, p \in BOOLEAN : SingleLookup(t, p)
    \/ AttemptTimeout
    \/ \E e \in QueryErrors : AttemptError(e)
    \/ \E r \in Responses : AttemptResponse(r)
    \/ FinishFailed
    \/ \E a \in RdnsAnswers : FinishLookup(a)
    \/ ApiReturn
    \/ \E list \in BatchLists : RunList(list)
    \/ LoopNext
    \/ Handle
    \/ LoopEnd

Spec == Init /\ [][Next]_vars

(***************************************************************************)
(* The cache on its own: load, then direct calls of NetworkCache.set.      *)
(***************************************************************************)
SetKeys ==
    { <<"10.0.0.0", "/", "8">>, <<"8.8.8.0", "/", "24">>, <<"8.8.0.0", "/", "16">>,
      <<"8.8.8.8">>, <<"8.8.8.8", "/", "32">>, <<"8.8.8.8", "/", "24">>, <<"NA">> }

SetNames == { <<"GOGL">> }

CacheSet(network, name) ==
    /\ pc = "ready"
    /\ calls < MaxSets
    /\ calls' = calls + 1
    /\ cache' = SetCache(cache, network, name, Google, <<"US">>, <<"arin">>, <<>>, Today)
    /\ net_to_cidr' = SetIndex(net_to_cidr, network)
    /\ hist' = hist \o Parseable(<<network>>)
    /\ last_set' = network
    /\ UNCHANGED <<pc, caller, not_found, listVars, callVars, result, io, attempts,
                   pre, origin, queued, as_list, disk, not_found_file,
                   start_cache_size,
                   cache_file_name>>

NextCache ==
    \/ Load
    \/ \E network \in SetKeys, name \in SetNames : CacheSet(network, name)

SpecCache == Init /\ [][NextCache]_vars

(***************************************************************************)
(* search_list on a long list of tokens that all go to the registry: each  *)
(* lookup is answered with a delegated block, or fails.                    *)
(***************************************************************************)
PaceLists == { [i \in 1..n |-> <<"8.8.8.8">>] : n \in 1..MaxPace }

NextPace ==
    \/ Load
    \/ \E list \in PaceLists : RunList(list)
    \/ LoopNext
    \/ AttemptError("HTTPLookupError")
    \/ AttemptResponse(Delegated)
    \/ FinishFailed
    \/ FinishLookup(None)
    \/ Handle
    \/ LoopEnd

SpecPace == Init /\ [][NextPace]_vars

(***************************************************************************)
(* The unresolved queue on its own: appends and NetworkCache.save_not_found.*)
(***************************************************************************)
QueueTokens == { <<"8.8.8.8">>, <<"8.8.4.4", "/", "24">> }

\* self.cache.not_found.append(address)
QueueAppend(token) ==
    /\ pc = "ready"
    /\ calls < MaxQueueOps
    /\ calls' = calls + 1
    /\ not_found' = Append(not_found, token)
    /\ queued' = Append(queued, token)
    /\ UNCHANGED <<pc, caller, cache, net_to_cidr, listVars, callVars, result, io,
                   attempts, pre, hist, origin, last_set, as_list, disk,
                   not_found_file,
                   start_cache_size, cache_file_name>>

\* NetworkCache.save_not_found
SaveNotFound ==
    /\ pc = "ready"
    /\ calls < MaxQueueOps
    /\ calls' = calls + 1
    /\ not_found_file' = NotFoundWrite(not_found_file, not_found)
    /\ not_found' = <<>>
    /\ io' = [io EXCEPT !.flushes = IF Len(not_found) # 0 THEN @ + 1 ELSE @]
    /\ UNCHANGED <<pc, caller, cache, net_to_cidr, listVars, callVars, result,
                   attempts, pre, hist, ghostVars, disk, start_cache_size,
                   cache_file_name>>

NextQueue ==
    \/ Load
    \/ \E token \in QueueTokens : QueueAppend(token)
    \/ SaveNotFound

SpecQueue == Init /\ [][NextQueue]_vars

(***************************************************************************)
(* RirSearcher.search_excel on one column of cells.  The workbook itself,  *)
(* its colours and the text written back into the cells are left out.      *)
(***************************************************************************)
\* atoms with a character that is no digit, dot or slash
NotAddressAtoms == { "host", "x", "NA", " ", ",", "\n" }

\* re.match(r"^[\d\.\/]+$", entry): "$" also matches before a final newline
ResemblesAddress(entry) ==
    LET body == IF Len(entry) > 0 /\ entry[Len(entry)] = "\n"
                THEN SubSeq(entry, 1, Len(entry) - 1) ELSE entry
    IN  /\ Len(body) > 0
        /\ \A i \in DOMAIN body : body[i] \notin NotAddressAtoms

\* the cells of a column, down to the first empty one
ExcelCells ==
    { <<"8.8.4.4", "/", "24">>, <<"10.1.2.3">>, <<"host">>, <<"8.8.8.8", "/">> }

ExcelColumns == UNION { [1..n -> ExcelCells] : n \in 0..MaxBatch }

\* lines 254-255, 261-285: the counters are zeroed and the column is found
RunExcel(cells) ==
    /\ pc = "ready"
    /\ calls = 0
    /\ calls' = 1
    /\ ip_list' = cells
    /\ cache_hits' = 0
    /\ lookups' = 0
    /\ io' = NoIo
    /\ as_list' = NoCounts
    /\ pc' = "cell"
    /\ UNCHANGED <<origin, last_set, queued, caller, cacheVars, resolved_ip_list,
                   raw_ip_list, callVars, result, attempts, pre, hist, disk,
                   not_found_file, start_cache_size, cache_file_name>>

\* lines 286-304: the next cell; one that resembles no address is passed
\* over, the others go to single_lookup
ExcelNext ==
    /\ pc = "cell"
    /\ Len(ip_list) # 0
    /\ ip_list' = Tail(ip_list)
    /\ LET entry == Head(ip_list)
           known == check_known_nets(entry)
       IN  IF ResemblesAddress(entry)
           THEN /\ Begin(Remove(entry, "\n"), FALSE, "excel", io)
                /\ UNCHANGED <<calls, cache_hits, lookups, resolved_ip_list,
                               raw_ip_list>>
           ELSE \* search_list passes the cell to single_lookup all the same
                /\ as_list' = IF known.resolved_net # NoRecord
                              THEN Counted(as_list,
                                       Returned(TRUE, FALSE, FALSE, known.resolved_net))
                              ELSE [as_list EXCEPT !.running = FALSE]
                /\ UNCHANGED <<pc, origin, last_set, queued, caller, calls, cacheVars,
                               cache_hits, lookups, resolved_ip_list, raw_ip_list,
                               callVars, result, io, attempts, pre, hist, disk,
                               not_found_file, start_cache_size, cache_file_name>>

\* lines 302-329: what search_excel does with the outcome of single_lookup
ExcelHandle ==
    /\ pc = "ret"
    /\ caller = "excel"
    /\ IF result.status = "raised"
       THEN \* only ValueError is caught: the cell is passed over
            /\ pc' = IF result.exc = "ValueError" THEN "cell" ELSE "aborted"
            /\ UNCHANGED <<cache_hits, lookups, io, disk>>
       ELSE /\ pc' = "cell"
            /\ IF result.error
               THEN UNCHANGED <<cache_hits, lookups, io, disk>>
               ELSE /\ lookups' = lookups + 1
                    /\ IF result.known_net
                       THEN UNCHANGED <<cache_hits, io, disk>>
                       ELSE IF result.cached
                       THEN /\ cache_hits' = cache_hits + 1
                            /\ UNCHANGED <<io, disk>>
                       ELSE /\ cache_hits' = cache_hits
                            /\ io' = [io EXCEPT
                                   !.pace_sleeps =
                                       IF (lookups + 1) % SLEEP_INTERVAL = 0
                                       THEN @ + 1 ELSE @,
                                   !.saves =
                                       IF (lookups + 1) % CACHE_SAVE_INTERVAL = 0
                                       THEN @ + 1 ELSE @]
                            /\ disk' = IF (lookups + 1) % CACHE_SAVE_INTERVAL = 0
                                       THEN SaveCache(disk, cache) ELSE disk
    /\ as_list' = Counted(as_list, result)
    /\ ClearCall
    /\ UNCHANGED <<origin, last_set, queued, calls, cacheVars, ip_list,
                   resolved_ip_list, raw_ip_list, hist, not_found_file,
                   start_cache_size, cache_file_name>>

\* lines 289-290, 336-340: the first empty cell ends the column
ExcelEnd ==
    /\ pc = "cell"
    /\ Len(ip_list) = 0
    /\ disk' = IF Len(cache) > start_cache_size THEN SaveCache(disk, cache) ELSE disk
    /\ not_found_file' = NotFoundWrite(not_found_file, not_found)
    /\ not_found' = <<>>
    /\ io' = [io EXCEPT
                !.saves = IF Len(cache) > start_cache_size THEN @ + 1 ELSE @,
                !.flushes = IF Len(not_found) # 0 THEN @ + 1 ELSE @]
    /\ pc' = "done"
    /\ UNCHANGED <<ghostVars, caller, calls, cache, net_to_cidr, listVars, callVars,
                   result, attempts, pre, hist, start_cache_size, cache_file_name>>

NextExcel ==
    \/ Load
    \/ \E cells \in ExcelColumns : RunExcel(cells)
    \/ ExcelNext
    \/ AttemptError("HTTPLookupError")
    \/ \E r \in Responses : AttemptResponse(r)
    \/ FinishFailed
    \/ \E a \in RdnsAnswers : FinishLookup(a)
    \/ ExcelHandle
    \/ ExcelEnd

SpecExcel == Init /\ [][NextExcel]_vars

\* the addresses in_cache is asked about
ProbeAddrs ==
    { <<10, 1, 2, 3>>, <<8, 8, 8, 8>>, <<8, 8, 4, 4>>, <<8, 8, 8, 0>>, <<1, 1, 1, 1>> }

(***************************************************************************)
(* Properties.                                                             *)
(***************************************************************************)
InCall == pc \in {"query", "post", "ret"}

\* the whois queries, cooldown sleeps and cache writes of the current call
CallQueries == io.whois - pre.io.whois
CallSleeps == io.timeout_sleeps - pre.io.timeout_sleeps
CallWrites == io.cache_writes - pre.io.cache_writes
CallReads == io.cache_reads - pre.io.cache_reads

CacheUntouched ==
    /\ cache = pre.cache
    /\ net_to_cidr = pre.net_to_cidr
    /\ CallWrites = 0

\* the index, as the call found it, holds a network with the host address
Covered ==
    \E i \in DOMAIN pre.net_to_cidr : Contains(pre.net_to_cidr[i][1], ip)

\* a record built from a block of the index that holds the host address
FromMatchedBlock(rec) ==
    \E i \in DOMAIN pre.net_to_cidr :
        LET key == pre.net_to_cidr[i][2]
        IN  /\ Contains(pre.net_to_cidr[i][1], ip)
            /\ HasKey(pre.cache, key)
            /\ rec = ResolvedNetwork(address, key, Get(pre.cache, key).description,
                                     Get(pre.cache, key).name,
                                     Get(pre.cache, key).country,
                                     Get(pre.cache, key).registry,
                                     Get(pre.cache, key).fqdn)

\* C1: a routable token whose host address lies in a network of the index
\* ends as a cache hit, with a record built from the matched block, no
\* registry query, and the cache mapping, the index and the unresolved
\* queue as they were.
C1_CacheHit ==
    (InCall /\ ip # NoIp /\ Covered) =>
        /\ pc = "ret"
        /\ result.status = "returned"
        /\ ~result.known_net /\ result.cached /\ ~result.error
        /\ FromMatchedBlock(result.resolved_net)
        /\ CallQueries = 0
        /\ CacheUntouched
        /\ not_found = pre.not_found

C1_Witness ==
    /\ pc = "ret" /\ ip # NoIp /\ Covered /\ result.cached
    /\ Len(cache) > 0 /\ address = <<"8.8.8.8">>

\* the host part of the current token is an invalid or a well-known address
HostOf(token) == IpAddress(Split(token, "/")[1])

IsWellKnownHost(h) ==
    \/ h = NoIp
    \/ is_private(h) \/ is_loopback(h) \/ is_multicast(h)
    \/ is_unspecified(h) \/ is_reserved(h)

Descriptions ==
    {PRIVATE_IP_DESCR, LOOPBACK_IP_DESCR, MCAST_IP_DESCR, RSVD_IP_DESCR,
     INVALID_IP_DESCR}

\* C2: a token whose host part is invalid, private, loopback, multicast,
\* unspecified or reserved ends as wellKnown with the classifier's record
\* (cidr, name, country, registry and fqdn empty), and the call reads no
\* cache, writes none, appends nothing to the unresolved queue and makes no
\* external query.
C2_WellKnown ==
    (InCall /\ IsWellKnownHost(HostOf(address))) =>
        /\ pc = "ret"
        /\ result.status = "returned"
        /\ result.known_net /\ ~result.cached /\ ~result.error
        /\ result.resolved_net.address = address
        /\ result.resolved_net.description \in Descriptions
        /\ result.resolved_net.cidr = <<>>
        /\ result.resolved_net.name = <<>>
        /\ result.resolved_net.country = <<>>
        /\ result.resolved_net.registry = <<>>
        /\ result.resolved_net.fqdn = <<>>
        /\ CallReads = 0
        /\ CacheUntouched
        /\ not_found = pre.not_found
        /\ CallQueries = 0
        /\ io.rdns = pre.io.rdns

C2_Witness ==
    /\ pc = "ret" /\ result.known_net
    /\ address = <<"224.0.0.1">>
    /\ result.resolved_net.description = MCAST_IP_DESCR

Timeouts == {i \in DOMAIN attempts : attempts[i] = "TimeoutError"}

\* C3: the registry is queried at most 3 times for a token; when all 3
\* attempts time out the call returns failed with no record, the token is
\* in the unresolved queue, the cache is not written, and nothing is raised.
C3_RetryBound ==
    /\ InCall => CallQueries <= 3 /\ CallQueries = Len(attempts)
    /\ (pc = "ret" /\ Cardinality(Timeouts) = 3) =>
          /\ result = Returned(FALSE, FALSE, TRUE, NoRecord)
          /\ not_found = Append(pre.not_found, address)
          /\ CacheUntouched

C3_Witness ==
    pc = "ret" /\ Cardinality(Timeouts) = 3 /\ result.error

\* C4: a registry error other than a timeout ends the attempts for the
\* token: it is the last attempt, no cooldown follows it (the call has slept
\* once per timeout and no more), and the call ends failed with the token in
\* the unresolved queue, however many timeouts came first.
C4_NoRetryOnError ==
    InCall =>
        /\ \A i \in DOMAIN attempts :
              attempts[i] \in QueryErrors => i = Len(attempts) /\ pc # "query"
        /\ CallSleeps = Cardinality(Timeouts)
        /\ (pc = "ret" /\ \E i \in DOMAIN attempts : attempts[i] \in QueryErrors) =>
              /\ result = Returned(FALSE, FALSE, TRUE, NoRecord)
              /\ not_found = Append(pre.not_found, address)

C4_Witness ==
    /\ pc = "ret" /\ Len(attempts) = 3 /\ attempts[3] = "ASNParseError"
    /\ attempts[1] = "TimeoutError" /\ result.error

\* the outcome tags of single_lookup
IsOutcome(r) ==
    /\ r.status = "returned"
    /\ <<r.known_net, r.cached, r.error>> \in
          { <<TRUE, FALSE, FALSE>>, <<FALSE, TRUE, FALSE>>,
            <<FALSE, FALSE, FALSE>>, <<FALSE, FALSE, TRUE>> }

\* C5: for every token and every answer of the collaborators single_lookup
\* ends in one of wellKnown, cacheHit, lookedUp, failed without raising, and
\* search_list goes on to every remaining token of the list.
C5_NeverRaises ==
    /\ pc = "ret" => IsOutcome(result)
    /\ pc # "aborted"
    /\ pc = "done" => Len(ip_list) = 0

\* the whois query of the current call answered, with a block of an
\* excluded name
ExcludedAnswer ==
    /\ pc = "ret"
    /\ Len(attempts) > 0 /\ attempts[Len(attempts)] = "ok"
    /\ NetName(response) \in ReservedNetNames

\* C6: when the lookup succeeds and the block name is excluded (IANA-BLK),
\* single_lookup returns lookedUp with the record, writes nothing to the
\* cache (mapping and index as before the call) and saves nothing to disk.
C6_ExcludedLookedUp ==
    ExcludedAnswer =>
        /\ result.status = "returned"
        /\ ~result.known_net /\ ~result.cached /\ ~result.error
        /\ result.resolved_net.address = address
        /\ result.resolved_net.name = NetName(response)
        /\ result.resolved_net.cidr = NetCidr(response)
        /\ CacheUntouched
        /\ disk = pre.disk
        /\ io.saves = pre.io.saves

\* the networks a record's cidr names
BlocksOf(rec) ==
    LET items == Split(Remove(rec.cidr, " "), ",")
    IN  {IpNetwork(items[i]) : i \in DOMAIN items} \ {NoNet}

\* C7 as stated: in one batch, once a lookup has returned a block B that
\* covers its token's host address, no later token whose host address lies
\* in B is queried at the registry.
C7_OneQueryPerBlock ==
    (pc = "query" /\ caller = "list") =>
        \A i \in DOMAIN resolved_ip_list :
            \A B \in BlocksOf(resolved_ip_list[i]) :
                ~(Contains(B, HostOf(resolved_ip_list[i].address)) /\ Contains(B, ip))

\* C7, amended: in one batch, once a lookup has written a cache entry under
\* a CIDR key that parses as a network, no later token whose host address
\* lies in that network is queried at the registry.
C7_OneQueryPerCachedBlock ==
    (pc = "query" /\ caller = "list") =>
        \A k \in Keys(origin) : ~Contains(IpNetwork(k), ip)

C7_Witness ==
    /\ pc = "ret" /\ caller = "list" /\ result.cached
    /\ \E k \in Keys(origin) : Contains(IpNetwork(k), ip)
    /\ io.whois = 1

\* a cache hit on an entry that a lookup of this run wrote
HitOnWritten ==
    /\ pc = "ret"
    /\ result.status = "returned" /\ result.cached
    /\ HasKey(origin, result.resolved_net.cidr)

\* C8 as stated: the record of a cache hit has the cidr, name, description,
\* country and registry of the record the lookup returned when it wrote the
\* entry; only the address differs.
C8_SameMetadata ==
    HitOnWritten =>
        LET hit == result.resolved_net
            was == Get(origin, hit.cidr)
        IN  /\ hit.cidr = was.cidr
            /\ hit.name = was.name
            /\ hit.description = was.description
            /\ hit.country = was.country
            /\ hit.registry = was.registry
            /\ hit.address = address

\* C8, amended: the record of a cache hit has the name, description, country
\* and registry of the record the lookup returned when it wrote the entry,
\* and the address of the current token; its cidr is the cache key.
C8_SameMetadataButCidr ==
    HitOnWritten =>
        LET hit == result.resolved_net
            was == Get(origin, hit.cidr)
        IN  /\ hit.name = was.name
            /\ hit.description = was.description
            /\ hit.country = was.country
            /\ hit.registry = was.registry
            /\ hit.address = address
            /\ hit.cidr = in_cache(pre.net_to_cidr, ip)

C8_Witness ==
    /\ HitOnWritten
    /\ result.resolved_net.cidr # Get(origin, result.resolved_net.cidr).cidr
    /\ result.resolved_net.address # Get(origin, result.resolved_net.cidr).address

\* the place of a network's first entry into the index
FirstPos(n) ==
    CHOOSE i \in DOMAIN hist :
        IpNetwork(hist[i]) = n /\ \A j \in 1..(i - 1) : IpNetwork(hist[j]) # n

\* C9 as stated: after set(c, ...), in_cache(a) is c for every address a
\* inside c.
C9_SetThenFound ==
    (last_set # None /\ IpNetwork(last_set) # NoNet) =>
        \A a \in ProbeAddrs :
            Contains(IpNetwork(last_set), a) => in_cache(net_to_cidr, a) = last_set

\* C9, amended: after set(c, ...) with a CIDR c that parses as a network,
\* in_cache(a) is, for every address a inside c, the key of a network that
\* holds a, and it is c unless a network that entered the index before c's
\* network holds a too.
C9_SetThenFoundUnlessEarlier ==
    (last_set # None /\ IpNetwork(last_set) # NoNet) =>
        \A a \in ProbeAddrs :
            Contains(IpNetwork(last_set), a) =>
                /\ in_cache(net_to_cidr, a) # None
                /\ Contains(IpNetwork(in_cache(net_to_cidr, a)), a)
                /\ (\A j \in 1..(FirstPos(IpNetwork(last_set)) - 1) :
                        ~Contains(IpNetwork(hist[j]), a))
                   => in_cache(net_to_cidr, a) = last_set

C9_Witness ==
    /\ last_set = <<"10.0.0.0", "/", "8">>
    /\ in_cache(net_to_cidr, <<10, 1, 2, 3>>) = <<"10.0.0.0", "/", "8">>
    /\ Len(hist) > 1

\* what in_cache is to return, from the order the networks came in: the
\* latest CIDR given for the first network that holds the address
FirstMatch(a) ==
    LET hits == {i \in DOMAIN hist : Contains(IpNetwork(hist[i]), a)}
    IN  IF hits = {} THEN None
        ELSE LET f    == CHOOSE i \in hits : \A j \in hits : i <= j
                 same == {i \in DOMAIN hist : IpNetwork(hist[i]) = IpNetwork(hist[f])}
             IN  hist[CHOOSE i \in same : \A j \in same : j <= i]

\* C10: after load and any sets, in_cache(a) is the CIDR key of the index
\* network that came in first among those holding a (not the most specific
\* one), and none exactly when no index network holds a.
C10_FirstMatch ==
    pc = "ready" =>
        \A a \in ProbeAddrs :
            /\ in_cache(net_to_cidr, a) = FirstMatch(a)
            /\ in_cache(net_to_cidr, a) = None <=>
                  ~\E i \in DOMAIN net_to_cidr : Contains(net_to_cidr[i][1], a)

C10_Witness ==
    /\ pc = "ready"
    /\ in_cache(net_to_cidr, <<8, 8, 8, 8>>) = <<"8.8.0.0", "/", "16">>
    /\ \E i \in DOMAIN net_to_cidr : net_to_cidr[i][2] = <<"8.8.8.0", "/", "24">>
    /\ in_cache(net_to_cidr, <<1, 1, 1, 1>>) = None

\* the state right after the constructor has loaded a file of JSON text
JustLoaded ==
    /\ pc = "ready" /\ calls = 0
    /\ disk[cache_file_name].kind = "json"

\* C11: loading a decodable file keeps exactly the entries that have a
\* created stamp less than 14 days before the load (none: removed; 15 days
\* and exactly 14 days: removed; 13 days: kept), each with its fields as in
\* the file.
C11_LoadPrunes ==
    JustLoaded =>
        LET file == JsonLoad(disk[cache_file_name].data)
        IN  /\ \A i \in DOMAIN file :
                 LET k == file[i][1]
                     e == file[i][2]
                 IN  IF e.created # -1 /\ Today - e.created < CACHE_TIMEOUT_DAYS
                     THEN HasKey(cache, k) /\ Get(cache, k) = e
                     ELSE ~HasKey(cache, k)
            /\ \A k \in Keys(cache) : HasKey(file, k)

C11_Witness ==
    /\ JustLoaded
    /\ disk[cache_file_name] = GoodFile
    /\ Keys(cache) = { <<"8.8.4.0", "/", "24">> }
    /\ Get(cache, <<"8.8.4.0", "/", "24">>) = OldEntry(Today - 13)

\* the networks an index covers
NetworksOf(index) == {index[i][1] : i \in DOMAIN index}

\* C12: round trip. For a cache reached by load and sets, save_cache to a
\* file and loading that file before anything expires ends without raising
\* and gives a mapping with the same keys and field values and an index that
\* covers the same networks.
C12_RoundTrip ==
    pc = "ready" =>
        LET r == LoadFile(Json(JsonDump(cache)), Today)
        IN  /\ r.status = "ok"
            /\ Keys(r.cache) = Keys(cache)
            /\ \A k \in Keys(cache) : Get(r.cache, k) = Get(cache, k)
            /\ NetworksOf(r.index) = NetworksOf(net_to_cidr)

\* the loaded file has an entry that is not expired under a key that does
\* not parse as a network
FreshBadKey(file) ==
    \E i \in DOMAIN file :
        /\ file[i][2].created # -1
        /\ Today - file[i][2].created < CACHE_TIMEOUT_DAYS
        /\ IpNetwork(file[i][1]) = NoNet

\* C13: when the loaded file has a non-expired entry whose key is no
\* network, load does not raise; the key is left out of the index, stays in
\* the cache mapping, and every other surviving key is in the index.
C13_LoadSkipsBadKey ==
    (/\ pc # "new" /\ calls = 0
     /\ disk[cache_file_name].kind = "json"
     /\ FreshBadKey(JsonLoad(disk[cache_file_name].data)))
    => /\ pc = "ready"
       /\ LET file == JsonLoad(disk[cache_file_name].data)
          IN  \A i \in DOMAIN file :
                 LET k == file[i][1]
                 IN  (file[i][2].created # -1
                        /\ Today - file[i][2].created < CACHE_TIMEOUT_DAYS)
                     => /\ HasKey(cache, k)
                        /\ IF IpNetwork(k) = NoNet
                           THEN \A j \in DOMAIN net_to_cidr : net_to_cidr[j][2] # k
                           ELSE HasKey(net_to_cidr, IpNetwork(k))

\* the index networks mapped to a cache key
IndexedAs(k) == {i \in DOMAIN net_to_cidr : net_to_cidr[i][2] = k}

\* C14 as stated: after load and any sets the cache mapping and the index
\* are in one-to-one correspondence: every cache key has exactly one index
\* network mapped to it, and every index network maps to a key of the cache.
C14_OneToOne ==
    pc = "ready" =>
        /\ \A k \in Keys(cache) : Cardinality(IndexedAs(k)) = 1
        /\ \A i \in DOMAIN net_to_cidr : HasKey(cache, net_to_cidr[i][2])

\* C14, amended: after load and any sets every index network maps to a key
\* of the cache that names this network, no network is in the index twice,
\* every cache key that parses as a network has its network in the index,
\* and every cache key has at most one index network mapped to it (none when
\* it does not parse, or when a key set later names the same network).
C14_IndexWithinCache ==
    pc = "ready" =>
        /\ \A i \in DOMAIN net_to_cidr :
              /\ HasKey(cache, net_to_cidr[i][2])
              /\ IpNetwork(net_to_cidr[i][2]) = net_to_cidr[i][1]
              /\ \A j \in DOMAIN net_to_cidr :
                    net_to_cidr[j][1] = net_to_cidr[i][1] => j = i
        /\ \A k \in Keys(cache) :
              /\ IpNetwork(k) # NoNet => HasKey(net_to_cidr, IpNetwork(k))
              /\ IpNetwork(k) = NoNet => IndexedAs(k) = {}
              /\ Cardinality(IndexedAs(k)) <= 1

C14_Witness ==
    /\ pc = "ready"
    /\ HasKey(cache, <<"NA">>) /\ IndexedAs(<<"NA">>) = {}
    /\ HasKey(cache, <<"8.8.8.8">>) /\ IndexedAs(<<"8.8.8.8">>) = {}
    /\ Cardinality(IndexedAs(<<"8.8.8.8", "/", "32">>)) = 1

\* the cache file given to the constructor cannot be decoded, and is still
\* the one on disk
Undecodable == disk[cache_file_name].kind \in {"corrupt", "binary"}

\* C15: loading a cache file whose content cannot be decoded does not raise
\* and leaves the cache mapping and the index empty; the batch that follows
\* runs as with an empty cache (no cache hit before a lookup of the batch
\* has written an entry).
C15_UndecodableIsEmpty ==
    (Undecodable /\ pc # "new") =>
        /\ pc # "crashed"
        /\ start_cache_size = 0
        /\ origin = <<>> => /\ cache = <<>>
                            /\ net_to_cidr = <<>>
                            /\ cache_hits = 0

\* the addresses flushed so far: all that were queued but the waiting ones
Flushed == SubSeq(queued, 1, Len(queued) - Len(not_found))

\* the lines of a text file
Lines(file) == IF file = <<>> THEN <<>> ELSE Split(file, "\n")

\* C16: after any appends and save_not_found calls the side file holds
\* every flushed address on a line of its own, in flush order, also across
\* several flushes (as many lines as addresses flushed), and nothing that
\* was queued is lost: it is in the file or still waiting.
C16_OneLinePerAddress ==
    pc = "ready" =>
        /\ Lines(not_found_file) = Flushed
        /\ Len(Lines(not_found_file)) + Len(not_found) = Len(queued)

\* C17: in search_list, each time the number of external lookups of the
\* batch (tokens neither well-known nor cache hits, successful or failed)
\* reaches a multiple of 10 the driver sleeps once before the next token,
\* and each time it reaches a multiple of 100 the cache is saved.
C17_Pacing ==
    pc = "loop" =>
        /\ io.pace_sleeps = lookups \div SLEEP_INTERVAL
        /\ io.saves = lookups \div CACHE_SAVE_INTERVAL

\* C18: when search_list finishes, whatever the outcomes of its tokens
\* were, the cache is on disk if it has more entries than right after load,
\* and the unresolved queue is empty with all its addresses in the side file.
C18_EndOfBatch ==
    pc = "done" =>
        /\ Len(cache) > start_cache_size
              => disk[DEFAULT_CACHE_FILE] = Json(JsonDump(cache))
        /\ not_found = <<>>
        /\ Lines(not_found_file) = queued

C18_Witness ==
    /\ pc = "done"
    /\ Len(cache) > start_cache_size
    /\ disk[DEFAULT_CACHE_FILE] = Json(JsonDump(cache))
    /\ queued # <<>>
    /\ not_found = <<>>

\* C19: the categories of the classifier do not overlap: a loopback host
\* (127.0.0.0/8) is reported as "Loopback range", an unspecified or reserved
\* host as "Reserved IP range", and none of them as "Private (RFC 1918 or
\* APIPA) range".
C19_LoopbackIsLoopback ==
    (pc = "ret" /\ HostOf(address) # NoIp) =>
        LET h == HostOf(address)
            d == result.resolved_net.description
        IN  /\ is_loopback(h) => result.known_net /\ d = LOOPBACK_IP_DESCR
            /\ (is_unspecified(h) \/ is_reserved(h))
                  => result.known_net /\ d = RSVD_IP_DESCR

\* single_lookup returned the record of a successful external lookup whose
\* block name is not excluded
LookedUpAndCached ==
    /\ pc = "ret"
    /\ result.status = "returned"
    /\ ~result.known_net /\ ~result.cached /\ ~result.error
    /\ result.resolved_net.name \notin ReservedNetNames

\* the keys the claim names for the response
ClaimedKeys ==
    IF "asn_cidr" \in response.keys /\ response.asn_cidr \notin {None, <<"NA">>}
    THEN {response.asn_cidr}
    ELSE LET items == Split(Remove(response.nets[1].cidr, " "), ",")
         IN  {items[i] : i \in DOMAIN items}

\* C20: after a successful external lookup whose block name is not excluded
\* the cache keys written are exactly {asn_cidr} when the response has an
\* asn_cidr other than "NA", and otherwise the comma-separated items of the
\* first net's cidr without spaces; each written entry has the record's
\* name, description, country, registry and fqdn, and no other key changes.
C20_KeysWritten ==
    LookedUpAndCached =>
        LET rec == result.resolved_net
        IN  /\ \A k \in ClaimedKeys :
                 /\ HasKey(cache, k)
                 /\ Get(cache, k) = Entry(rec.name, rec.description, rec.country,
                                          rec.registry, rec.fqdn, Today)
            /\ \A k \in (Keys(cache) \cup Keys(pre.cache)) \ ClaimedKeys :
                 /\ HasKey(cache, k) /\ HasKey(pre.cache, k)
                 /\ Get(cache, k) = Get(pre.cache, k)
            /\ CallWrites = Cardinality(ClaimedKeys)

C20_Witness ==
    /\ LookedUpAndCached
    /\ response.asn_cidr = <<"NA">>
    /\ ClaimedKeys = { <<"8.8.8.0", "/", "24">> }
    /\ Len(pre.cache) > 0
    /\ Len(cache) = Len(pre.cache) + 1

(***************************************************************************)
(* search_excel against search_list.                                       *)
(***************************************************************************)
\* C21: for the same tokens and the same answers of the collaborators,
\* search_excel has after every cell the cache-hit counter and the
\* external-lookup counter search_list has after the same token, and has
\* slept and saved the cache as often.
C21_SameCounters ==
    (pc = "cell" /\ as_list.running) =>
        /\ cache_hits = as_list.cache_hits
        /\ lookups = as_list.lookups
        /\ io.pace_sleeps = as_list.sleeps
        /\ io.saves = as_list.saves

(***************************************************************************)
(* The name in a record.                                                   *)
(***************************************************************************)
\* the reverse-DNS queries of the current call
CallRdns == io.rdns - pre.io.rdns

\* the name in the record was resolved for the host address of the token:
\* by the reverse-DNS query of this call, or, on a cache hit, by the lookup
\* that wrote the entry
ResolvedForOwnHost(rec) ==
    IF result.cached
    THEN /\ HasKey(origin, rec.cidr)
         /\ HostOf(Get(origin, rec.cidr).address) = HostOf(address)
    ELSE CallRdns = 1

\* C22: a record single_lookup returns has a name in fqdn only if the token
\* is a single host (a bare address or a /32), and the name is then the
\* reverse-DNS name of the token's own host address, never one resolved for
\* another address.
C22_OwnName ==
    (/\ pc = "ret"
     /\ result.status = "returned"
     /\ result.resolved_net # NoRecord
     /\ result.resolved_net.fqdn # <<>>) =>
        /\ IsSingleHost(address)
        /\ ResolvedForOwnHost(result.resolved_net)

(***************************************************************************)
(* The unresolved queue during search_list.                                *)
(***************************************************************************)
\* the tokens search_list has handled whose workflow ended failed: all the
\* others were appended to resolved_ip_list
FailedOccurrences == Len(raw_ip_list) - Len(ip_list) - Len(resolved_ip_list)

\* C23: during search_list each occurrence of a token whose workflow ends
\* failed is appended to the unresolved queue exactly once, so after the
\* batch the side file holds as many addresses as there were failed
\* occurrences.
C23_QueuedOnce ==
    /\ pc = "loop" => Len(queued) = FailedOccurrences
    /\ pc = "done" => Len(Lines(not_found_file)) = FailedOccurrences

(***************************************************************************)
(* The file the cache is saved to.                                         *)
(***************************************************************************)
\* a save_cache call has just been made: by single_lookup with persist, or
\* at the end of search_list
JustSaved ==
    \/ pc = "ret" /\ persist /\ io.saves = pre.io.saves + 1
    \/ pc = "done" /\ Len(cache) > start_cache_size

\* the keys written in this run
AddedKeys == { k \in Keys(cache) : Get(cache, k).created = Today }

\* what a run that loads file name f on the last day before expiry holds
LaterRun(f) == LoadFile(disk[f], Today + CACHE_TIMEOUT_DAYS - 1).cache

\* C24: every save of the cache writes the file the cache was loaded from
\* (the cache_file_name given to RirSearcher), so a later run that loads
\* that file within 14 days sees every entry the earlier run added.
C24_SavesLoadedFile ==
    JustSaved =>
        /\ disk[cache_file_name] = Json(JsonDump(cache))
        /\ AddedKeys \subseteq Keys(LaterRun(cache_file_name))

====
